---- MODULE Spec2Model ----
(***************************************************************************)
(* The forwarding engine of fishroom (fishroom/fishroom.py) and the        *)
(* Message envelope (fishroom/models.py).                                  *)
(*                                                                         *)
(* Texts are sequences of characters, a character being a one-element      *)
(* token ("x", "\n", " ", or a code point name such as "U+4E2D").          *)
(* Optional values are <<>> (None) or <<v>>.                               *)
(***************************************************************************)
EXTENDS Integers, Sequences, FiniteSets, TLC

VARIABLES
    bus,        \* messages published and not yet consumed (message_bus)
    published,  \* number of messages published so far
    stream,     \* the messages message_stream() has yielded, in order
    pc,         \* position of ForwardingThread in its loop body
    msg,        \* local msg
    c,          \* local c: a room key, then an adapter (for c in channels)
    b,          \* local b: the binding row, <<>> for None
    bot_reply,  \* local bot_reply
    msg_id,     \* local msg_id
    contents,   \* local contents
    send_back,  \* local send_back
    i,          \* index of the adapter the for loop is at
    j,          \* number of content lines already sent to that adapter
    trace,      \* every call made on a collaborator, in order
    flaky       \* whether the networks may refuse a send in this run

vars == <<bus, published, stream, pc, msg, c, b, bot_reply, msg_id,
          contents, send_back, i, j, trace, flaky>>

----------------------------------------------------------------------------
(* Bounds *)

MaxMsgs == 2
MaxFail == 1

----------------------------------------------------------------------------
(* models.py *)

ChannelType == [XMPP |-> "xmpp", IRC |-> "irc", Telegram |-> "telegram"]

MessageType == [Text |-> "text", Photo |-> "photo", Sticker |-> "sticker",
                Event |-> "event", Command |-> "command"]

None == <<>>
Some(v) == <<v>>

Message(channel, sender, receiver, content, mtype, date, time, media_url) ==
    [channel |-> channel, sender |-> sender, receiver |-> receiver,
     content |-> content, mtype |-> mtype, date |-> date, time |-> time,
     media_url |-> media_url]

----------------------------------------------------------------------------
(* Text primitives *)

Repeat(ch, k) == [x \in 1..k |-> ch]

\* bytes of one character in UTF-8
Utf8Width(ch) ==
    CASE ch = "U+00E9" -> 2
      [] ch = "U+4E2D" -> 3
      [] OTHER -> 1

\* len(s.encode('utf-8'))
ByteLen(s) ==
    LET wide(w) == Cardinality({k \in DOMAIN s : Utf8Width(s[k]) = w})
    IN wide(1) + 2 * wide(2) + 3 * wide(3)

\* s.count(ch)
Count(s, ch) == Cardinality({k \in DOMAIN s : s[k] = ch})

\* s.split(sep): the pieces between the separators, in order
Split(s, sep) ==
    LET seps == {k \in DOMAIN s : s[k] = sep}
        starts == {0} \cup seps
        stop(p) == IF \E q \in seps : q > p
                   THEN CHOOSE q \in seps :
                            q > p /\ \A r \in seps : r > p => q <= r
                   ELSE Len(s) + 1
        start(l) == CHOOSE p \in starts :
                        Cardinality({q \in starts : q < p}) = l - 1
    IN [l \in 1..Cardinality(starts) |->
            SubSeq(s, start(l) + 1, stop(start(l)) - 1)]

\* the characters \s matches
IsSpace(ch) == ch \in {" ", "\t", "\r", "\f"}

\* the test for the empty line only
IsBlank_EmptyOnly(line) == line = <<>>

\* re.match(r'^\s*$', line)
IsBlank(line) == \A k \in DOMAIN line : IsSpace(line[k])

\* str.lower() on the network names in use
lower(s) ==
    CASE s = "IRC" -> "irc"
      [] s = "XMPP" -> "xmpp"
      [] s = "Telegram" -> "telegram"
      [] OTHER -> s

----------------------------------------------------------------------------
(* Configuration and the collaborators' values *)

\* config['bindings'], in the order items() yields the rooms
bindings ==
    << <<"room1", [irc |-> "#a", xmpp |-> "room@conf", telegram |-> "-100123"]>>,
       <<"room2", [irc |-> "#b", xmpp |-> "dev@conf", telegram |-> "-100456"]>>,
       <<"room3", [irc |-> "#a", xmpp |-> "ops@conf", telegram |-> "-100789"]>> >>

\* config.get("name", "bot")
BotName == <<"b", "o", "t">>

\* the adapters ForwardingThread is started with, in tuple order
channels == <<"tghandle", "irchandle", "xmpphandle">>

\* c.ChanTag of an adapter
ChanTag(a) ==
    CASE a = "tghandle" -> ChannelType.Telegram
      [] a = "irchandle" -> ChannelType.IRC
      [] a = "xmpphandle" -> ChannelType.XMPP

\* the producer threads main() starts, each with its adapter
Producers ==
    [TelegramThread |-> "tghandle", IRCThread |-> "irchandle",
     XMPPThread |-> "xmpphandle"]

\* what a command handler may return
Pong == <<"p", "o", "n", "g">>
Replies == {<<>>, Pong}

\* the url text_store.new_paste returns when it succeeds
Url1 == <<"h", "t", "t", "p", ":", "/", "/", "p", "/", "1">>

LongText == <<" ", "(", "l", "o", "n", "g", " ", "t", "e", "x", "t", ")">>

----------------------------------------------------------------------------
(* The messages the adapters publish *)

alice == <<"a", "l", "i", "c", "e">>
bob == <<"b", "o", "b">>
hi == <<"h", "i">>
ping == <<"!", "p", "i", "n", "g">>
blankOnly == <<" ", "\n", "\t">>
fiveNl == <<"a", "\n", " ", "\t", "\n", "\n", "\n", "\n", "b">>
sixNl == <<"!", "a", "\n", "\n", "\n", "b", "\n", "\n", "\n">>
x401 == Repeat("x", 401)
zh400 == Repeat("U+4E2D", 133) \o <<"x">>

day == Some("2016-03-01")
noon == Some("12:00:00")

Inbound ==
    { Message("irc", alice, "#a", hi, "text", day, noon, None),
      Message("irc", alice, "#a", x401, "text", None, None, None),
      Message("irc", alice, "#a", ping, "command", day, noon, None),
      Message("irc", alice, "#zzz", hi, "text", day, noon, None),
      Message("xmpp", bob, "room@conf", fiveNl, "photo", day, noon,
              Some("http://i/1.jpg")),
      Message("xmpp", bob, "dev@conf", zh400, "text", day, noon, None),
      Message("telegram", bob, "-100123", sixNl, "command", day, noon, None),
      Message("telegram", bob, "-100123", sixNl, "event", day, noon, None),
      Message("telegram", alice, "-100456", blankOnly, "sticker", day, noon,
              Some("http://i/2.png")) }

\* the messages published in the runs where sends may fail
FlakyInbound ==
    {m \in Inbound : m.content = ping \/ m.mtype = MessageType.Event}

\* a local no statement has assigned yet
NoMsg == Message("", <<>>, "", <<>>, "", None, None, None)

----------------------------------------------------------------------------
(* ForwardingThread's pure parts *)

RECURSIVE FirstMatch(_, _)
FirstMatch(m, k) ==
    IF k > Len(bindings) THEN <<None, None>>
    ELSE IF m.receiver = bindings[k][2][lower(m.channel)]
         THEN <<Some(bindings[k][1]), Some(bindings[k][2])>>
         ELSE FirstMatch(m, k + 1)

\* get_binding falling back to the first room when no row matches
get_binding_DefaultRoom(m) ==
    IF FirstMatch(m, 1)[2] = None
    THEN <<Some(bindings[1][1]), Some(bindings[1][2])>>
    ELSE FirstMatch(m, 1)

\* get_binding returning the last matching room of the table
get_binding_LastMatch(m) ==
    LET rows == {r \in DOMAIN bindings :
                    m.receiver = bindings[r][2][lower(m.channel)]}
        last == CHOOSE r \in rows : \A q \in rows : q <= r
    IN IF rows = {} THEN <<None, None>>
       ELSE <<Some(bindings[last][1]), Some(bindings[last][2])>>

\* get_binding(msg): (c, b) of the first matching room, or (None, None)
get_binding(m) == FirstMatch(m, 1)

\* msg_tmpl.format(sender=..., content=...)
msg_tmpl(sender, content) == <<"[">> \o sender \o <<"]", " ">> \o content

\* ev_tmpl.format(content=...)
ev_tmpl(content) == content

NewlineLimit == 5
ByteLimit == 400

\* the condition with the length taken in characters
ShouldOverflow_CharLen(content) ==
    Count(content, "\n") > NewlineLimit \/ Len(content) >= ByteLimit

\* the condition of the "Other Message" if
ShouldOverflow(content) ==
    Count(content, "\n") > NewlineLimit \/ ByteLen(content) >= ByteLimit

\* the list comprehension of the else branch
NonBlankLines(content) ==
    SelectSeq(Split(content, "\n"), LAMBDA line : ~IsBlank(line))

\* the guard with the origin test dropped
SendsContent_Always(a, m, sb) == TRUE

\* the guard with send_back ignored
SendsContent_NoSendBack(a, m, sb) == ChanTag(a) # m.channel

\* the condition guarding the content sends of one adapter
SendsContent(a, m, sb) == ChanTag(a) # m.channel \/ sb = TRUE

\* the synthetic message that logs a bot reply
ReplyMessage(m, reply) ==
    Message(m.channel, BotName, m.receiver, reply, MessageType.Text,
            m.date, m.time, None)

----------------------------------------------------------------------------
(* The collaborators: each call is recorded in trace with the number of    *)
(* the message being processed                                             *)

\* number of the message the engine is processing
Cur == Len(stream)

\* the value of c while the for loop is at adapter a
Adapter(a) == <<"<adapter>", a>>

\* chat_logger.log(room, m), returning the reference ref
LogCall(room, m, ref) ==
    [op |-> "log", n |-> Cur, room |-> room, msg |-> m, ref |-> ref]

\* the reference the next chat_logger.log call returns
NextRef(tr) == Cardinality({k \in DOMAIN tr : tr[k].op = "log"}) + 1

\* parse_command, get_command_handler and the handler, with their outcome
CommandCall(outcome, reply) ==
    [op |-> "command", n |-> Cur, outcome |-> outcome, reply |-> reply]

\* text_store.new_paste(content, sender, channel=, date=, time=, msg_id=)
PasteCall(m, room, ref, url) ==
    [op |-> "new_paste", n |-> Cur, content |-> m.content, sender |-> m.sender,
     channel |-> room, date |-> m.date, time |-> m.time, msg_id |-> ref,
     url |-> url]

\* a.send_msg(target, text); ok tells whether the network took it
SendCall(a, target, text, ok) ==
    [op |-> "send_msg", n |-> Cur, adapter |-> a, target |-> target,
     text |-> text, ok |-> ok]

\* the outcomes a send may have: it may fail while failures are left
SendOutcomes ==
    IF /\ flaky
       /\ Cardinality({k \in DOMAIN trace :
                         trace[k].op = "send_msg" /\ ~trace[k].ok}) < MaxFail
    THEN BOOLEAN ELSE {TRUE}

----------------------------------------------------------------------------
(* The producer threads *)

Publish(t, m) ==
    /\ published < MaxMsgs
    /\ m.channel = ChanTag(Producers[t])
    /\ flaky => m \in FlakyInbound
    /\ bus' = Append(bus, m)
    /\ published' = published + 1
    /\ UNCHANGED <<flaky, stream, pc, msg, c, b, bot_reply, msg_id, contents,
                   send_back, i, j, trace>>

----------------------------------------------------------------------------
(* ForwardingThread, one action per step of the loop body *)

\* the next message taken while the fan-out of the last one is running
Receive_WhileBusy ==
    /\ pc \in {"recv", "fanout"}
    /\ bus # <<>>
    /\ LET m == Head(bus)
           cb == get_binding(m)
       IN /\ msg' = m
          /\ stream' = Append(stream, m)
          /\ c' = cb[1]
          /\ b' = cb[2]
          /\ pc' = IF cb[2] = None THEN "recv" ELSE "dispatch"
    /\ bus' = Tail(bus)
    /\ UNCHANGED <<flaky, published, bot_reply, msg_id, contents, send_back,
                   i, j, trace>>

\* the room key kept in a name the loops below rebind: c is taken from the
\* binding only while it is unset
Receive_StaleRoom ==
    /\ pc = "recv"
    /\ bus # <<>>
    /\ LET m == Head(bus)
           cb == get_binding(m)
       IN /\ msg' = m
          /\ stream' = Append(stream, m)
          /\ c' = IF c = None THEN cb[1] ELSE c
          /\ b' = cb[2]
          /\ pc' = IF cb[2] = None THEN "recv" ELSE "dispatch"
    /\ bus' = Tail(bus)
    /\ UNCHANGED <<flaky, published, bot_reply, msg_id, contents, send_back, i, j,
                   trace>>

\* for msg in message_stream(): c, b = get_binding(msg); if b is None: continue
Receive ==
    /\ pc = "recv"
    /\ bus # <<>>
    /\ LET m == Head(bus)
           cb == get_binding(m)
       IN /\ msg' = m
          /\ stream' = Append(stream, m)
          /\ c' = cb[1]
          /\ b' = cb[2]
          /\ pc' = IF cb[2] = None THEN "recv" ELSE "dispatch"
    /\ bus' = Tail(bus)
    /\ UNCHANGED <<flaky, published, bot_reply, msg_id, contents, send_back, i, j,
                   trace>>

\* every message that is no command made Text
DispatchSkip_ToText ==
    /\ pc = "dispatch"
    /\ msg.mtype # MessageType.Command
    /\ bot_reply' = <<>>
    /\ msg' = [msg EXCEPT !.mtype = MessageType.Text]
    /\ pc' = "log"
    /\ UNCHANGED <<flaky, bus, published, stream, c, b, msg_id, contents,
                   send_back, i, j, trace>>

\* bot_reply = ""; the message is no command
DispatchSkip ==
    /\ pc = "dispatch"
    /\ msg.mtype # MessageType.Command
    /\ bot_reply' = <<>>
    /\ pc' = "log"
    /\ UNCHANGED <<flaky, bus, published, stream, msg, c, b, msg_id, contents,
                   send_back, i, j, trace>>

\* the except branch without the downgrade
DispatchRaise_NoDowngrade ==
    /\ pc = "dispatch"
    /\ msg.mtype = MessageType.Command
    /\ bot_reply' = <<>>
    /\ trace' = Append(trace, CommandCall("raise", <<>>))
    /\ pc' = "log"
    /\ UNCHANGED <<flaky, bus, published, stream, msg, c, b, msg_id, contents,
                   send_back, i, j>>

\* parsing, the lookup or the handler raises: except: msg.mtype = Text
DispatchRaise ==
    /\ pc = "dispatch"
    /\ msg.mtype = MessageType.Command
    /\ bot_reply' = <<>>
    /\ msg' = [msg EXCEPT !.mtype = MessageType.Text]
    /\ trace' = Append(trace, CommandCall("raise", <<>>))
    /\ pc' = "log"
    /\ UNCHANGED <<flaky, bus, published, stream, c, b, msg_id, contents, send_back,
                   i, j>>

\* the message made Text when no handler is found
DispatchNoHandler_Downgrade ==
    /\ pc = "dispatch"
    /\ msg.mtype = MessageType.Command
    /\ bot_reply' = <<>>
    /\ msg' = [msg EXCEPT !.mtype = MessageType.Text]
    /\ trace' = Append(trace, CommandCall("nohandler", <<>>))
    /\ pc' = "log"
    /\ UNCHANGED <<flaky, bus, published, stream, c, b, msg_id, contents,
                   send_back, i, j>>

\* get_command_handler returns None
DispatchNoHandler ==
    /\ pc = "dispatch"
    /\ msg.mtype = MessageType.Command
    /\ bot_reply' = <<>>
    /\ trace' = Append(trace, CommandCall("nohandler", <<>>))
    /\ pc' = "log"
    /\ UNCHANGED <<flaky, bus, published, stream, msg, c, b, msg_id, contents,
                   send_back, i, j>>

\* bot_reply = handler(cmd, *args, msg=msg)
DispatchReply(reply) ==
    /\ pc = "dispatch"
    /\ msg.mtype = MessageType.Command
    /\ bot_reply' = reply
    /\ trace' = Append(trace, CommandCall("reply", reply))
    /\ pc' = "log"
    /\ UNCHANGED <<flaky, bus, published, stream, msg, c, b, msg_id, contents,
                   send_back, i, j>>

\* the log calls with no Event block after them: an Event goes on as any
\* other message
Log_NoEventBlock ==
    /\ pc = "log"
    /\ LET ref == NextRef(trace)
           second == IF bot_reply # <<>>
                     THEN <<LogCall(c, ReplyMessage(msg, bot_reply), ref + 1)>>
                     ELSE <<>>
       IN /\ msg_id' = ref
          /\ trace' = trace \o <<LogCall(c, msg, ref)>> \o second
    /\ pc' = "other"
    /\ UNCHANGED <<flaky, bus, published, stream, msg, c, b, bot_reply,
                   contents, send_back, i, j>>

\* the log calls placed after the Event block: an Event is not logged
Log_SkipsEvents ==
    /\ pc = "log"
    /\ LET ref == NextRef(trace)
           first == IF msg.mtype = MessageType.Event THEN <<>>
                    ELSE <<LogCall(c, msg, ref)>>
           second == IF bot_reply # <<>>
                     THEN <<LogCall(c, ReplyMessage(msg, bot_reply), ref + 1)>>
                     ELSE <<>>
       IN /\ msg_id' = ref
          /\ trace' = trace \o first \o second
    /\ IF msg.mtype = MessageType.Event
       THEN pc' = "event" /\ i' = 1
       ELSE pc' = "other" /\ i' = i
    /\ UNCHANGED <<flaky, bus, published, stream, msg, c, b, bot_reply,
                   contents, send_back, j>>

\* msg_id = chat_logger.log(c, msg); if bot_reply: chat_logger.log(c, Message(...))
Log ==
    /\ pc = "log"
    /\ LET ref == NextRef(trace)
           first == <<LogCall(c, msg, ref)>>
           second == IF bot_reply # <<>>
                     THEN <<LogCall(c, ReplyMessage(msg, bot_reply), ref + 1)>>
                     ELSE <<>>
       IN /\ msg_id' = ref
          /\ trace' = trace \o first \o second
    /\ IF msg.mtype = MessageType.Event
       THEN pc' = "event" /\ i' = 1
       ELSE pc' = "other" /\ i' = i
    /\ UNCHANGED <<flaky, bus, published, stream, msg, c, b, bot_reply, contents,
                   send_back, j>>

\* one iteration of the Event loop, then continue
EventSend(ok) ==
    /\ pc = "event"
    /\ LET a == channels[i]
           target == b[1][lower(ChanTag(a))]
       IN /\ c' = Adapter(a)
          /\ trace' = Append(trace, SendCall(a, target, ev_tmpl(msg.content), ok))
    /\ IF i = Len(channels)
       THEN pc' = "recv" /\ i' = 0
       ELSE pc' = pc /\ i' = i + 1
    /\ UNCHANGED <<flaky, bus, published, stream, msg, b, bot_reply, msg_id,
                   contents, send_back, j>>

\* the failure branch without its continue
PasteFailed_FallThrough ==
    /\ pc = "other"
    /\ ShouldOverflow(msg.content)
    /\ trace' = Append(trace, PasteCall(msg, c, msg_id, None))
    /\ pc' = "fanout"
    /\ i' = 1
    /\ j' = 0
    /\ UNCHANGED <<flaky, bus, published, stream, msg, c, b, bot_reply,
                   msg_id, contents, send_back>>

\* new_paste returns None: print, continue
PasteFailed ==
    /\ pc = "other"
    /\ ShouldOverflow(msg.content)
    /\ trace' = Append(trace, PasteCall(msg, c, msg_id, None))
    /\ pc' = "recv"
    /\ UNCHANGED <<flaky, bus, published, stream, msg, c, b, bot_reply, msg_id,
                   contents, send_back, i, j>>

\* the message logged once more after the store has answered
PasteStored_LogAfter(url) ==
    /\ pc = "other"
    /\ ShouldOverflow(msg.content)
    /\ trace' = trace \o <<PasteCall(msg, c, msg_id, Some(url)),
                           LogCall(c, msg, NextRef(trace))>>
    /\ contents' = <<url \o LongText>>
    /\ send_back' = TRUE
    /\ pc' = "fanout"
    /\ i' = 1
    /\ j' = 0
    /\ UNCHANGED <<flaky, bus, published, stream, msg, c, b, bot_reply, msg_id>>

\* new_paste returns a url: contents = [text_url + " (long text)"]
PasteStored(url) ==
    /\ pc = "other"
    /\ ShouldOverflow(msg.content)
    /\ trace' = Append(trace, PasteCall(msg, c, msg_id, Some(url)))
    /\ contents' = <<url \o LongText>>
    /\ send_back' = TRUE
    /\ pc' = "fanout"
    /\ i' = 1
    /\ j' = 0
    /\ UNCHANGED <<flaky, bus, published, stream, msg, c, b, bot_reply, msg_id>>

\* the else branch: the non-blank lines, send_back = False
Inline ==
    /\ pc = "other"
    /\ ~ShouldOverflow(msg.content)
    /\ contents' = NonBlankLines(msg.content)
    /\ send_back' = FALSE
    /\ pc' = "fanout"
    /\ i' = 1
    /\ j' = 0
    /\ UNCHANGED <<flaky, bus, published, stream, msg, c, b, bot_reply, msg_id,
                   trace>>

\* whether the inner loop over contents has lines left for adapter i
LinesLeft == SendsContent(channels[i], msg, send_back) /\ j < Len(contents)

\* the outer loop moves to the next adapter, or ends
NextAdapter ==
    /\ IF i = Len(channels)
       THEN pc' = "recv" /\ i' = 0
       ELSE pc' = pc /\ i' = i + 1
    /\ j' = 0

\* a failed send ending the fan-out of the message
SendLine_AbortOnFailure(ok) ==
    /\ pc = "fanout"
    /\ SendsContent(channels[i], msg, send_back) /\ j < Len(contents)
    /\ LET a == channels[i]
           target == b[1][lower(ChanTag(a))]
       IN /\ c' = Adapter(a)
          /\ trace' = Append(trace,
                 SendCall(a, target, msg_tmpl(msg.sender, contents[j + 1]), ok))
    /\ IF ok THEN pc' = pc /\ i' = i /\ j' = j + 1
             ELSE pc' = "recv" /\ i' = 0 /\ j' = 0
    /\ UNCHANGED <<flaky, bus, published, stream, msg, b, bot_reply, msg_id,
                   contents, send_back>>

\* the lines of contents taken last to first
SendLine_Reversed(ok) ==
    /\ pc = "fanout"
    /\ LinesLeft
    /\ LET a == channels[i]
           target == b[1][lower(ChanTag(a))]
       IN /\ c' = Adapter(a)
          /\ trace' = Append(trace,
                 SendCall(a, target,
                          msg_tmpl(msg.sender, contents[Len(contents) - j]), ok))
    /\ j' = j + 1
    /\ UNCHANGED <<flaky, bus, published, stream, pc, msg, b, bot_reply, msg_id,
                   contents, send_back, i>>

\* c.send_msg(target, msg_tmpl.format(sender=msg.sender, content=line))
SendLine(ok) ==
    /\ pc = "fanout"
    /\ LinesLeft
    /\ LET a == channels[i]
           target == b[1][lower(ChanTag(a))]
       IN /\ c' = Adapter(a)
          /\ trace' = Append(trace,
                 SendCall(a, target, msg_tmpl(msg.sender, contents[j + 1]), ok))
    /\ j' = j + 1
    /\ UNCHANGED <<flaky, bus, published, stream, pc, msg, b, bot_reply, msg_id,
                   contents, send_back, i>>

\* if bot_reply: c.send_msg(target, bot_reply)
SendReply(ok) ==
    /\ pc = "fanout"
    /\ ~LinesLeft
    /\ bot_reply # <<>>
    /\ LET a == channels[i]
           target == b[1][lower(ChanTag(a))]
       IN /\ c' = Adapter(a)
          /\ trace' = Append(trace, SendCall(a, target, bot_reply, ok))
    /\ NextAdapter
    /\ UNCHANGED <<flaky, bus, published, stream, msg, b, bot_reply, msg_id,
                   contents, send_back>>

\* an adapter that gets no reply: the loop body ends
SkipReply ==
    /\ pc = "fanout"
    /\ ~LinesLeft
    /\ bot_reply = <<>>
    /\ c' = Adapter(channels[i])
    /\ NextAdapter
    /\ UNCHANGED <<flaky, bus, published, stream, msg, b, bot_reply, msg_id,
                   contents, send_back, trace>>

----------------------------------------------------------------------------

Init ==
    /\ bus = <<>>
    /\ published = 0
    /\ stream = <<>>
    /\ pc = "recv"
    /\ msg = NoMsg
    /\ c = None
    /\ b = None
    /\ bot_reply = <<>>
    /\ msg_id = 0
    /\ contents = <<>>
    /\ send_back = FALSE
    /\ i = 0
    /\ j = 0
    /\ trace = <<>>
    /\ flaky \in BOOLEAN

Next ==
    \/ \E t \in DOMAIN Producers, m \in Inbound : Publish(t, m)
    \/ Receive
    \/ DispatchSkip
    \/ DispatchRaise
    \/ DispatchNoHandler
    \/ \E reply \in Replies : DispatchReply(reply)
    \/ Log
    \/ \E ok \in SendOutcomes : EventSend(ok)
    \/ PasteFailed
    \/ \E url \in {Url1} : PasteStored(url)
    \/ Inline
    \/ \E ok \in SendOutcomes : SendLine(ok)
    \/ \E ok \in SendOutcomes : SendReply(ok)
    \/ SkipReply

Spec == Init /\ [][Next]_vars

----------------------------------------------------------------------------
(* What the trace says about the k-th message of the stream *)

Adapters == {channels[x] : x \in DOMAIN channels}

\* the pipeline of message k has ended
Done(k) == k < Cur \/ (k = Cur /\ pc = "recv")

\* the calls of kind op made for message k, in order
Calls(k, op) == SelectSeq(trace, LAMBDA e : e.n = k /\ e.op = op)

\* the sends made to adapter a for message k, in order
SendsTo(k, a) ==
    SelectSeq(trace, LAMBDA e : e.n = k /\ e.op = "send_msg" /\ e.adapter = a)

\* their texts
TextsTo(k, a) ==
    LET sends == SendsTo(k, a)
    IN [x \in DOMAIN sends |-> sends[x].text]

\* the rows of the binding table message m matches
MatchingRooms(m) ==
    {r \in DOMAIN bindings : bindings[r][2][m.channel] = m.receiver}

Routed(k) == MatchingRooms(stream[k]) # {}

\* the address bound to adapter a in the row message k resolves to
AddressOf(k, a) ==
    LET r == CHOOSE r \in MatchingRooms(stream[k]) :
                 \A q \in MatchingRooms(stream[k]) : r <= q
    IN bindings[r][2][ChanTag(a)]

\* the contents a message may carry
Contents == {m.content : m \in Inbound}

\* whether a content has more than 5 newlines or at least 400 UTF-8 bytes
OversizedOf == [s \in Contents |-> Count(s, "\n") > 5 \/ ByteLen(s) >= 400]

\* the lines of a content that have a character other than whitespace
LinesOf ==
    [s \in Contents |->
        SelectSeq(Split(s, "\n"),
                  LAMBDA line : \E x \in DOMAIN line : ~IsSpace(line[x]))]

\* the overflow policy's condition on the content of message k
Oversized(k) == OversizedOf[stream[k].content]

\* the overflow store was asked for message k and returned no url
StoreFailed(k) ==
    \E x \in DOMAIN trace :
        trace[x].n = k /\ trace[x].op = "new_paste" /\ trace[x].url = None

\* the non-empty reply a handler returned for message k, <<>> if none
ReplyOf(k) ==
    IF \E x \in DOMAIN trace :
           trace[x].n = k /\ trace[x].op = "command" /\ trace[x].outcome = "reply"
    THEN Calls(k, "command")[1].reply
    ELSE <<>>

\* the command dispatch of message k raised
Raised(k) ==
    \E x \in DOMAIN trace :
        trace[x].n = k /\ trace[x].op = "command" /\ trace[x].outcome = "raise"

\* the lines relayed for message k: the link line when the content was
\* stored, else the non-blank lines of the content
RelayLines(k) ==
    IF Calls(k, "new_paste") # <<>> /\ ~StoreFailed(k)
    THEN <<Calls(k, "new_paste")[1].url[1] \o LongText>>
    ELSE LinesOf[stream[k].content]

\* the lines, each as "[sender] line"
Formatted(k, lines) ==
    [x \in DOMAIN lines |->
        <<"[">> \o stream[k].sender \o <<"]", " ">> \o lines[x]]

\* the texts sent to adapter a for message k, the bot reply left out
ContentTextsTo(k, a) ==
    LET t == TextsTo(k, a)
    IN IF ReplyOf(k) # <<>> /\ t # <<>> /\ t[Len(t)] = ReplyOf(k)
       THEN SubSeq(t, 1, Len(t) - 1)
       ELSE t

\* every send made for message k goes to the address of its adapter
ToBoundAddress(k) ==
    \A x \in DOMAIN trace :
        (trace[x].n = k /\ trace[x].op = "send_msg")
            => trace[x].target = AddressOf(k, trace[x].adapter)

----------------------------------------------------------------------------
(* C1 *)

\* C1 as stated: for every routed message that is no Event, an adapter
\* receives the content lines, each as "[sender] line" at its bound address,
\* if and only if its network differs from the origin network or the
\* overflow policy fired for the message.
C1_Original ==
    \A k \in 1..Cur :
        (Done(k) /\ Routed(k) /\ stream[k].mtype # "event") =>
            /\ ToBoundAddress(k)
            /\ \A a \in Adapters :
                  ContentTextsTo(k, a) =
                      IF ChanTag(a) # stream[k].channel \/ Oversized(k)
                      THEN Formatted(k, RelayLines(k))
                      ELSE <<>>

\* C1 as amended: the same, for the routed non-Event messages that are not
\* dropped by a failure of the overflow store; a message that did not
\* overflow is never sent back to its origin address.
C1_FanOutRule ==
    \A k \in 1..Cur :
        (Done(k) /\ Routed(k) /\ stream[k].mtype # "event" /\ ~StoreFailed(k)) =>
            /\ ToBoundAddress(k)
            /\ \A a \in Adapters :
                  ContentTextsTo(k, a) =
                      IF ChanTag(a) # stream[k].channel \/ Oversized(k)
                      THEN Formatted(k, RelayLines(k))
                      ELSE <<>>

\* the scenario of C1: "hi" from alice on #a has been relayed, as
\* "[alice] hi", to -100123 and to room@conf and to nobody else
C1_Witness ==
    \E k \in 1..Cur :
        /\ Done(k)
        /\ stream[k] = Message("irc", alice, "#a", hi, "text", day, noon, None)
        /\ [x \in DOMAIN Calls(k, "send_msg") |->
               <<Calls(k, "send_msg")[x].target, Calls(k, "send_msg")[x].text>>]
           = << <<"-100123", <<"[", "a", "l", "i", "c", "e", "]", " ", "h", "i">> >>,
                <<"room@conf", <<"[", "a", "l", "i", "c", "e", "]", " ", "h", "i">> >> >>

----------------------------------------------------------------------------
(* C2 *)

\* C2: for every routed Event the fan-out leaves out the origin adapter: the
\* content goes to every other adapter and no send goes to the address
\* bound to the origin network.
C2_EventSkipsOrigin ==
    \A k \in 1..Cur :
        (Done(k) /\ Routed(k) /\ stream[k].mtype = "event") =>
            \A a \in Adapters :
                IF ChanTag(a) = stream[k].channel
                THEN /\ SendsTo(k, a) = <<>>
                     /\ \A x \in DOMAIN trace :
                            (trace[x].n = k /\ trace[x].op = "send_msg")
                                => trace[x].target # stream[k].receiver
                ELSE TextsTo(k, a) = <<stream[k].content>>

----------------------------------------------------------------------------
(* C3 *)

\* C3: whenever a handler returns a non-empty reply for a routed message,
\* the reply is logged as a message of the bot and is sent, unformatted,
\* once to every bound adapter, the origin included, whatever the overflow
\* policy does with the triggering message.
C3_ReplyAlwaysSentAndLogged ==
    \A k \in 1..Cur :
        (Done(k) /\ ReplyOf(k) # <<>>) =>
            /\ \E x \in DOMAIN trace :
                  /\ trace[x].n = k
                  /\ trace[x].op = "log"
                  /\ trace[x].msg.sender = BotName
                  /\ trace[x].msg.content = ReplyOf(k)
            /\ \A a \in Adapters :
                  \E x \in DOMAIN SendsTo(k, a) :
                      /\ SendsTo(k, a)[x].text = ReplyOf(k)
                      /\ SendsTo(k, a)[x].target = AddressOf(k, a)

----------------------------------------------------------------------------
(* C4 *)

\* the texts adapter a is due for message k, given what the handler and the
\* overflow store returned for it
DueTo(k, a) ==
    IF ~Routed(k) THEN <<>>
    ELSE IF stream[k].mtype = "event" THEN <<stream[k].content>>
    ELSE IF StoreFailed(k) THEN <<>>
    ELSE (IF ChanTag(a) # stream[k].channel \/ Oversized(k)
          THEN Formatted(k, RelayLines(k)) ELSE <<>>)
         \o (IF ReplyOf(k) # <<>> THEN <<ReplyOf(k)>> ELSE <<>>)

\* a step of the engine
Engine ==
    \/ Receive
    \/ DispatchSkip
    \/ DispatchRaise
    \/ DispatchNoHandler
    \/ \E reply \in Replies : DispatchReply(reply)
    \/ Log
    \/ \E ok \in SendOutcomes : EventSend(ok)
    \/ PasteFailed
    \/ \E url \in {Url1} : PasteStored(url)
    \/ Inline
    \/ \E ok \in SendOutcomes : SendLine(ok)
    \/ \E ok \in SendOutcomes : SendReply(ok)
    \/ SkipReply

\* a send made for message k failed
SendFailed(k) ==
    \E x \in DOMAIN trace :
        trace[x].n = k /\ trace[x].op = "send_msg" /\ ~trace[x].ok

----------------------------------------------------------------------------
(* C5 *)

\* C5: for every routed message that is no Event, the overflow store is
\* called (once) exactly when the content has more than 5 newlines or at
\* least 400 UTF-8 bytes; when it returns a url, every receiving adapter gets
\* one content send, the line "<url> (long text)", and none of the lines of
\* the content.
C5_OverflowRelay ==
    \A k \in 1..Cur :
        (Done(k) /\ Routed(k) /\ stream[k].mtype # "event") =>
            LET pastes == Calls(k, "new_paste")
                m == stream[k]
            IN /\ Len(pastes) =
                      IF OversizedOf[m.content]
                      THEN 1 ELSE 0
               /\ \A x \in DOMAIN pastes :
                      /\ pastes[x].content = m.content
                      /\ pastes[x].sender = m.sender
                      /\ pastes[x].url # None =>
                            \A a \in Adapters :
                                ContentTextsTo(k, a) =
                                    << <<"[">> \o m.sender \o <<"]", " ">>
                                       \o pastes[x].url[1]
                                       \o <<" ", "(", "l", "o", "n", "g", " ",
                                            "t", "e", "x", "t", ")">> >>

\* a content of exactly 400 bytes in 134 characters was stored and relayed
\* as the link line, and a content of 5 newlines went out inline
C5_Witness ==
    \E k, l \in 1..Cur :
        /\ Done(k) /\ Done(l)
        /\ stream[k].content = zh400
        /\ Calls(k, "new_paste") # <<>>
        /\ ~StoreFailed(k)
        /\ Calls(k, "send_msg") # <<>>
        /\ stream[l].content = fiveNl
        /\ Calls(l, "new_paste") = <<>>
        /\ Calls(l, "send_msg") # <<>>

----------------------------------------------------------------------------
(* C6 *)

X401 == Message("irc", alice, "#a", x401, "text", None, None, None)

LinkLine ==
    <<"[", "a", "l", "i", "c", "e", "]", " ", "h", "t", "t", "p", ":", "/", "/",
      "p", "/", "1", " ", "(", "l", "o", "n", "g", " ", "t", "e", "x", "t", ")">>

\* the (target, text) pairs of the sends made for message k, in order
Relays(k) ==
    LET sends == Calls(k, "send_msg")
    IN [x \in DOMAIN sends |-> <<sends[x].target, sends[x].text>>]

\* C6 as stated: 401 bytes of "x" from #a, stored as http://p/1, give the one
\* relay line "http://p/1 (long text)" to room@conf and to -100123 only, and
\* nothing to #a.
C6_Original ==
    \A k \in 1..Cur :
        (Done(k) /\ stream[k] = X401 /\ ~StoreFailed(k)) =>
            /\ {Relays(k)[x] : x \in DOMAIN Relays(k)} =
                   {<<"room@conf", LinkLine>>, <<"-100123", LinkLine>>}
            /\ Len(Relays(k)) = 2
            /\ \A x \in DOMAIN Relays(k) : Relays(k)[x][1] # "#a"

\* C6 as amended: the one relay line, as "[alice] http://p/1 (long text)",
\* goes to all three bound addresses, the origin #a included: -100123, #a
\* and room@conf, one send each.
C6_SentBackToOrigin ==
    \A k \in 1..Cur :
        (Done(k) /\ stream[k] = X401 /\ ~StoreFailed(k)) =>
            Relays(k) = << <<"-100123", LinkLine>>, <<"#a", LinkLine>>,
                           <<"room@conf", LinkLine>> >>

\* the 401 bytes of "x" from #a were stored as http://p/1 and relayed
C6_Witness ==
    \E k \in 1..Cur :
        /\ Done(k)
        /\ stream[k] = X401
        /\ Calls(k, "new_paste") # <<>>
        /\ Calls(k, "new_paste")[1].url = Some(Url1)
        /\ \E x \in DOMAIN Relays(k) : Relays(k)[x][1] = "#a"

----------------------------------------------------------------------------
(* C7 *)

\* C7: when the overflow store returns no url for a message, the store is
\* not asked again, no send at all is made for that message, and its
\* pipeline ends there: the engine is back at the bus.
C7_StoreFailureDrops ==
    \A k \in 1..Cur :
        StoreFailed(k) =>
            /\ Len(Calls(k, "new_paste")) = 1
            /\ Calls(k, "send_msg") = <<>>
            /\ Done(k)

\* the store failed for message 1, nothing was sent for it, and message 2
\* went through the pipeline and was relayed
C7_Witness ==
    /\ Cur = 2
    /\ StoreFailed(1)
    /\ Oversized(1)
    /\ Done(2)
    /\ Calls(2, "log") # <<>>
    /\ Calls(2, "send_msg") # <<>>

----------------------------------------------------------------------------
(* C8 *)

\* C8: a message whose (channel, receiver) matches no row of the binding
\* table causes no call at all, no log, no command dispatch, no overflow
\* store call and no send, and its pipeline ends at once: the engine is back
\* at the bus.
C8_UnroutableSilent ==
    \A k \in 1..Cur :
        ~Routed(k) =>
            /\ \A x \in DOMAIN trace : trace[x].n # k
            /\ Done(k)

\* message 1 matched no row and left no call; message 2 was logged and
\* relayed after it
C8_Witness ==
    /\ Cur = 2
    /\ ~Routed(1)
    /\ Done(2)
    /\ Calls(2, "log") # <<>>
    /\ Calls(2, "send_msg") # <<>>

----------------------------------------------------------------------------
(* C9 *)

\* the non-blank lines of the content of message k
OwnLines(k) == LinesOf[stream[k].content]

\* the dispatch of message k raised: it is Text from then on, it is logged
\* once, as Text, and no reply is logged or sent
DowngradedNoReply(k) ==
    /\ k = Cur => msg.mtype = "text"
    /\ ReplyOf(k) = <<>>
    /\ Done(k) =>
          /\ Len(Calls(k, "log")) = 1
          /\ Calls(k, "log")[1].msg = [stream[k] EXCEPT !.mtype = "text"]
          /\ \A x \in DOMAIN trace :
                (trace[x].n = k /\ trace[x].op = "send_msg")
                    => trace[x].text # Pong

\* C9 as stated: when the dispatch of a Command raises, the message becomes
\* Text, no reply is logged or sent, and the message is logged and relayed as
\* "[sender] line" to the adapters other than the origin.
C9_Original ==
    \A k \in 1..Cur :
        Raised(k) =>
            /\ DowngradedNoReply(k)
            /\ Done(k) =>
                  \A a \in Adapters :
                      TextsTo(k, a) =
                          IF ChanTag(a) # stream[k].channel
                          THEN Formatted(k, OwnLines(k))
                          ELSE <<>>

\* C9 as amended: the same when the content does not trigger the overflow
\* policy; a content that does is handled as that of any Text message: the
\* link line to every adapter when the store returns a url, no send when it
\* fails.
C9_DowngradedToText ==
    \A k \in 1..Cur :
        Raised(k) =>
            /\ DowngradedNoReply(k)
            /\ Done(k) =>
                  \A a \in Adapters :
                      TextsTo(k, a) =
                          IF Oversized(k)
                          THEN (IF StoreFailed(k) THEN <<>>
                                ELSE Formatted(k, <<Url1 \o LongText>>))
                          ELSE IF ChanTag(a) # stream[k].channel
                          THEN Formatted(k, OwnLines(k))
                          ELSE <<>>

\* the dispatch of "!ping" from alice on #a raised, and "[alice] !ping" went
\* to the two other networks
C9_Witness ==
    \E k \in 1..Cur :
        /\ Done(k)
        /\ Raised(k)
        /\ stream[k].content = ping
        /\ Relays(k) =
              << <<"-100123", <<"[", "a", "l", "i", "c", "e", "]", " ",
                                "!", "p", "i", "n", "g">> >>,
                 <<"room@conf", <<"[", "a", "l", "i", "c", "e", "]", " ",
                                  "!", "p", "i", "n", "g">> >> >>

----------------------------------------------------------------------------
(* C10 *)

\* the calls made for message k are about message k
AboutMessage(k) ==
    \A x \in DOMAIN trace :
        trace[x].n = k =>
            CASE trace[x].op = "log" ->
                     /\ trace[x].msg.channel = stream[k].channel
                     /\ trace[x].msg.receiver = stream[k].receiver
                     /\ \/ /\ trace[x].msg.sender = stream[k].sender
                           /\ trace[x].msg.content = stream[k].content
                        \/ /\ trace[x].msg.sender = BotName
                           /\ trace[x].msg.content = ReplyOf(k)
              [] trace[x].op = "new_paste" ->
                     trace[x].content = stream[k].content
              [] trace[x].op = "send_msg" ->
                     trace[x].target = AddressOf(k, trace[x].adapter)
              [] OTHER -> stream[k].mtype = "command"

\* C10: messages are relayed in bus order, one at a time: the calls made for
\* message N all precede the calls made for message N+1, and when message
\* N+1 is taken from the bus the pipeline of message N is complete: its log
\* calls are made and every adapter has been called with all it is due.
C10_BusOrder ==
    /\ \A x \in 1..(Len(trace) - 1) : trace[x].n <= trace[x + 1].n
    /\ \A k \in 1..Cur :
          /\ AboutMessage(k)
          /\ Done(k) =>
                /\ \A a \in Adapters : TextsTo(k, a) = DueTo(k, a)
                /\ Len(Calls(k, "log")) =
                       IF ~Routed(k) THEN 0
                       ELSE IF ReplyOf(k) # <<>> THEN 2 ELSE 1

\* two messages went through, each logged and relayed, the calls of the
\* first all before those of the second
C10_Witness ==
    /\ Cur = 2
    /\ Done(2)
    /\ Calls(1, "log") # <<>> /\ Calls(1, "send_msg") # <<>>
    /\ Calls(2, "log") # <<>> /\ Calls(2, "send_msg") # <<>>
    /\ stream[1].channel # stream[2].channel

----------------------------------------------------------------------------
(* C11 *)

\* the positions in trace of the calls of kind op made for message k
At(k, op) == {x \in DOMAIN trace : trace[x].n = k /\ trace[x].op = op}

\* C11: every routed message is logged before any send of its fan-out; a
\* non-empty bot reply is logged as the very next call after the log of the
\* message that triggered it, and before any send as well.
C11_LoggedBeforeFanOut ==
    \A k \in 1..Cur :
        /\ (Routed(k) /\ (Done(k) \/ At(k, "send_msg") # {})) =>
              /\ At(k, "log") # {}
              /\ Calls(k, "log")[1].msg.sender = stream[k].sender
              /\ Calls(k, "log")[1].msg.content = stream[k].content
              /\ \A x \in At(k, "log"), y \in At(k, "send_msg") : x < y
        /\ (ReplyOf(k) # <<>> /\ At(k, "log") # {}) =>
              \E x \in At(k, "log") :
                  /\ At(k, "log") = {x, x + 1}
                  /\ trace[x].msg.sender = stream[k].sender
                  /\ trace[x + 1].msg.sender = BotName
                  /\ trace[x + 1].msg.content = ReplyOf(k)

\* "!ping" was answered with "pong": both were logged, one right after the
\* other, and the sends followed
C11_Witness ==
    \E k \in 1..Cur :
        /\ Done(k)
        /\ ReplyOf(k) = Pong
        /\ Len(Calls(k, "log")) = 2
        /\ Len(Calls(k, "send_msg")) = 5

----------------------------------------------------------------------------
(* C12 *)

\* message k as the engine may hold it: as it was published, or, when it was
\* a Command whose dispatch raised, the same with mtype Text
AsHeld(k) ==
    IF stream[k].mtype = "command" /\ Raised(k)
    THEN [stream[k] EXCEPT !.mtype = "text"]
    ELSE stream[k]

\* C12: the engine changes no field of a message but mtype, and mtype only
\* from Command to Text when the dispatch raised: the message in hand and
\* the message handed to the log are the published one, or that one
\* downgraded.
C12_OnlyDowngradeMutates ==
    /\ Cur >= 1 => msg = AsHeld(Cur)
    /\ \A x \in DOMAIN trace :
          (trace[x].op = "log" /\ trace[x].msg.sender # BotName)
              => trace[x].msg = AsHeld(trace[x].n)

\* a Photo went through the whole pipeline as a Photo, and a Command whose
\* dispatch raised is held as Text
C12_Witness ==
    /\ Cur = 2
    /\ Done(1)
    /\ stream[1].mtype = "photo"
    /\ Calls(1, "log")[1].msg.mtype = "photo"
    /\ Raised(2)
    /\ msg.mtype = "text"
    /\ stream[2].mtype = "command"

----------------------------------------------------------------------------
(* C13 *)

\* C13: a routed message that is no Event and does not overflow is relayed
\* line by line: every adapter but the origin gets one send per line of the
\* content that has a character other than whitespace, in the order of the
\* content, the origin gets none, and a line of whitespace only is never
\* sent; a content of blank lines only gives no content send at all.
C13_BlankLinesFiltered ==
    \A k \in 1..Cur :
        (Done(k) /\ Routed(k) /\ stream[k].mtype # "event" /\ ~Oversized(k)) =>
            /\ \A a \in Adapters :
                  ContentTextsTo(k, a) =
                      IF ChanTag(a) # stream[k].channel
                      THEN Formatted(k, OwnLines(k))
                      ELSE <<>>
            /\ \A x \in DOMAIN trace :
                  (trace[x].n = k /\ trace[x].op = "send_msg") =>
                      \E y \in DOMAIN trace[x].text : ~IsSpace(trace[x].text[y])
            /\ OwnLines(k) = <<>> => Calls(k, "send_msg") = <<>>

\* "a", a line of a space and a tab, three empty lines and "b" were relayed as
\* "[bob] a" and "[bob] b"; a content of whitespace only was relayed to nobody
C13_Witness ==
    /\ Cur = 2
    /\ Done(2)
    /\ stream[1].content = fiveNl
    /\ TextsTo(1, "irchandle") = << <<"[", "b", "o", "b", "]", " ", "a">>,
                                    <<"[", "b", "o", "b", "]", " ", "b">> >>
    /\ TextsTo(1, "tghandle") = TextsTo(1, "irchandle")
    /\ TextsTo(1, "xmpphandle") = <<>>
    /\ stream[2].content = blankOnly
    /\ Len(Calls(2, "log")) = 1
    /\ Calls(2, "send_msg") = <<>>

----------------------------------------------------------------------------
(* models.py: the serialized form of a Message *)

\* the fields MessageSchema declares
SchemaFields ==
    {"channel", "sender", "receiver", "mtype", "media_url", "content", "date",
     "time"}

\* the parameters of Message.__init__ that default to None
Optionals == {"date", "time", "media_url"}

\* the values of a JSON document; the text dumps returns is taken as the
\* document it denotes
JNull == <<"null">>
JString(s) == <<"string", s>>

\* what a plain fields.String() writes for an attribute that is None: the
\* schema states neither a default nor that None is allowed, so this is the
\* library's choice, null or the String field's own default ""
NoneForms == {JNull, JString("")}

\* Message.dumps: every declared field of the object, serialized
dumps(m, noneForm) ==
    [f \in SchemaFields |->
        IF f \in Optionals
        THEN (IF m[f] = None THEN noneForm ELSE JString(m[f][1]))
        ELSE JString(m[f])]

\* MessageSchema.make_object: Message(**kwargs), a parameter that is not
\* passed takes its default
make_object(kwargs) ==
    Message(kwargs.channel, kwargs.sender, kwargs.receiver, kwargs.content,
            IF "mtype" \in DOMAIN kwargs THEN kwargs.mtype ELSE MessageType.Text,
            IF "date" \in DOMAIN kwargs THEN Some(kwargs.date) ELSE None,
            IF "time" \in DOMAIN kwargs THEN Some(kwargs.time) ELSE None,
            IF "media_url" \in DOMAIN kwargs THEN Some(kwargs.media_url) ELSE None)

\* Message.loads: the fields of the document that carry a value, deserialized
\* and handed to make_object
loads(jstr) ==
    make_object([f \in {g \in DOMAIN jstr : jstr[g] # JNull} |-> jstr[f][2]])

\* the messages put through the serialized form
CodecInputs ==
    { Message(ch, alice, "#a", content, mt, d, t, mu) :
        ch \in {ChannelType.IRC, ChannelType.XMPP, ChannelType.Telegram},
        content \in {hi, ping},
        mt \in {MessageType.Text, MessageType.Photo, MessageType.Sticker,
                MessageType.Event, MessageType.Command},
        d \in {None, day}, t \in {None, noon},
        mu \in {None, Some("http://i/1")} }

\* msg.dumps() puts the serialized form on the bus
CallDumps(noneForm) ==
    /\ pc = "dumps"
    /\ bus' = <<dumps(msg, noneForm)>>
    /\ pc' = "loads"
    /\ UNCHANGED <<flaky, published, stream, msg, c, b, bot_reply, msg_id,
                   contents, send_back, i, j, trace>>

\* Message.loads(jstr) takes it off the bus
CallLoads ==
    /\ pc = "loads"
    /\ stream' = <<loads(bus[1])>>
    /\ bus' = <<>>
    /\ pc' = "loaded"
    /\ UNCHANGED <<flaky, published, msg, c, b, bot_reply, msg_id, contents,
                   send_back, i, j, trace>>

InitCodec ==
    /\ msg \in CodecInputs
    /\ pc = "dumps"
    /\ bus = <<>>
    /\ stream = <<>>
    /\ published = 0
    /\ c = None
    /\ b = None
    /\ bot_reply = <<>>
    /\ msg_id = 0
    /\ contents = <<>>
    /\ send_back = FALSE
    /\ i = 0
    /\ j = 0
    /\ trace = <<>>
    /\ flaky = FALSE

NextCodec ==
    \/ \E noneForm \in NoneForms : CallDumps(noneForm)
    \/ CallLoads

SpecCodec == InitCodec /\ [][NextCodec]_vars

----------------------------------------------------------------------------
(* C14 *)

\* C14: a Message put through dumps and then loads comes back equal in all
\* eight fields, the optional fields left unset included.
C14_RoundTrip == pc = "loaded" => stream[1] = msg

----------------------------------------------------------------------------
(* C15 *)

\* every call of kind op1 made for message k comes before every call of kind
\* op2 made for it
Before(k, op1, op2) ==
    LET first == At(k, op1)
        second == At(k, op2)
    IN \A x \in first : \A y \in second : x < y

\* C15 as stated: the steps of one message come in the order Bind, Dispatch,
\* Overflow-check, Log, Fan-out: the dispatch ends before the store is called,
\* the store call ends before the log call, the log call before the first
\* send.
C15_Original ==
    \A k \in 1..Cur :
        /\ Before(k, "command", "new_paste")
        /\ Before(k, "new_paste", "log")
        /\ Before(k, "log", "send_msg")

\* C15, amended: the steps of one message come in the order Bind, Dispatch,
\* Log, Overflow-check, Fan-out: nothing is called for a message that
\* resolves to no room, the dispatch ends before the log call, the log calls
\* end before the store is called, and the store call ends before the first
\* send.
C15_PipelineOrder ==
    \A k \in 1..Cur :
        /\ ~Routed(k) => \A x \in DOMAIN trace : trace[x].n # k
        /\ Before(k, "command", "log")
        /\ Before(k, "log", "new_paste")
        /\ Before(k, "new_paste", "send_msg")
        /\ Before(k, "command", "send_msg")
        /\ Before(k, "log", "send_msg")

\* a Command of six newlines was answered, logged with its reply, stored and
\* relayed, in that order
C15_Witness ==
    \E k \in 1..Cur :
        /\ Done(k)
        /\ At(k, "command") = {1}
        /\ At(k, "log") = {2, 3}
        /\ At(k, "new_paste") = {4}
        /\ At(k, "send_msg") = 5..10

----------------------------------------------------------------------------
(* C16 *)

\* C16: an Event goes through neither the command dispatch nor the overflow
\* path: no handler is looked up or run for it, no reply exists, the store
\* is never called, whatever the size of the content, it is logged once, as
\* an Event, and every send made for it carries the content as it is, one
\* send to an adapter.
C16_EventVerbatim ==
    \A k \in 1..Cur :
        (Routed(k) /\ stream[k].mtype = "event") =>
            /\ Calls(k, "command") = <<>>
            /\ Calls(k, "new_paste") = <<>>
            /\ k = Cur => (bot_reply = <<>> \/ pc = "dispatch")
            /\ \A a \in Adapters : TextsTo(k, a) \in {<<>>, <<stream[k].content>>}
            /\ Done(k) =>
                  /\ Len(Calls(k, "log")) = 1
                  /\ Calls(k, "log")[1].msg = stream[k]
                  /\ \E a \in Adapters : TextsTo(k, a) = <<stream[k].content>>

\* an Event of six newlines, two blank lines among them and a leading "!",
\* was sent as one text, and the store was not called
C16_Witness ==
    \E k \in 1..Cur :
        /\ Done(k)
        /\ stream[k].mtype = "event"
        /\ Oversized(k)
        /\ stream[k].content = sixNl
        /\ TextsTo(k, "irchandle") = <<sixNl>>
        /\ TextsTo(k, "xmpphandle") = <<sixNl>>
        /\ Calls(k, "new_paste") = <<>>

----------------------------------------------------------------------------
(* C17 *)

\* the place of adapter a in the list the engine was started with
Place(a) == CHOOSE p \in DOMAIN channels : channels[p] = a

IsPrefix(s, t) == Len(s) <= Len(t) /\ s = SubSeq(t, 1, Len(s))

\* C17: the sends of one message go adapter by adapter in the order of the
\* adapter list, the same for every message: a send to an adapter is never
\* followed by a send to an adapter earlier in the list, so each adapter is
\* visited once, and the sends to one adapter are its content lines in order
\* and then the bot reply.
C17_AdapterOrder ==
    \A k \in 1..Cur :
        /\ LET sends == Calls(k, "send_msg")
           IN \A x \in 1..(Len(sends) - 1) :
                  Place(sends[x].adapter) <= Place(sends[x + 1].adapter)
        /\ \A a \in Adapters :
              LET sent == TextsTo(k, a)
                  due == DueTo(k, a)
              IN /\ IsPrefix(sent, due)
                 /\ Done(k) => sent = due

\* two messages were relayed, each to the Telegram adapter first, then to the
\* IRC adapter, then to the XMPP adapter; one of them as two lines and
\* another as a line and a reply
C17_Witness ==
    /\ Cur = 2
    /\ Done(2)
    /\ stream[1].content = fiveNl
    /\ Len(Calls(1, "send_msg")) = 4
    /\ [x \in 1..4 |-> Calls(1, "send_msg")[x].adapter]
           = <<"tghandle", "tghandle", "irchandle", "irchandle">>
    /\ ReplyOf(2) = Pong
    /\ Len(Calls(2, "send_msg")) = 5
    /\ [x \in 1..5 |-> Calls(2, "send_msg")[x].adapter]
           = <<"tghandle", "tghandle", "irchandle", "xmpphandle", "xmpphandle">>
    /\ TextsTo(2, "xmpphandle")[2] = Pong

----------------------------------------------------------------------------
(* C18 *)

\* the lookup of a handler for message k returned None
NoHandler(k) ==
    \E x \in DOMAIN trace :
        trace[x].n = k /\ trace[x].op = "command" /\ trace[x].outcome = "nohandler"

\* no handler was found for message k: it stays a Command, it is logged
\* once, as it is, and no reply is logged or sent
StaysCommandNoReply(k) ==
    /\ k = Cur => msg = stream[k] /\ msg.mtype = "command"
    /\ k = Cur => bot_reply = <<>>
    /\ ReplyOf(k) = <<>>
    /\ ~Raised(k)
    /\ Done(k) =>
          /\ Len(Calls(k, "log")) = 1
          /\ Calls(k, "log")[1].msg = stream[k]
          /\ \A x \in DOMAIN trace :
                (trace[x].n = k /\ trace[x].op = "send_msg")
                    => trace[x].text # Pong

\* C18 as stated: a Command for which no handler is registered stays a
\* Command, no handler runs, no reply is logged or sent, and its content is
\* logged once and relayed as "[sender] line" to the adapters other than the
\* origin.
C18_Original ==
    \A k \in 1..Cur :
        NoHandler(k) =>
            /\ StaysCommandNoReply(k)
            /\ Done(k) =>
                  \A a \in Adapters :
                      TextsTo(k, a) =
                          IF ChanTag(a) # stream[k].channel
                          THEN Formatted(k, OwnLines(k))
                          ELSE <<>>

\* C18 as amended: the same when the content does not trigger the overflow
\* policy; a content that does is relayed as the link line to every adapter
\* when the store returns a url, and not at all when it fails.
C18_UnknownCommandRelayed ==
    \A k \in 1..Cur :
        NoHandler(k) =>
            /\ StaysCommandNoReply(k)
            /\ Done(k) =>
                  \A a \in Adapters :
                      TextsTo(k, a) =
                          IF Oversized(k)
                          THEN (IF StoreFailed(k) THEN <<>>
                                ELSE Formatted(k, <<Url1 \o LongText>>))
                          ELSE IF ChanTag(a) # stream[k].channel
                          THEN Formatted(k, OwnLines(k))
                          ELSE <<>>

\* no handler was found for "!ping" from alice on #a: it was logged as a
\* Command and "[alice] !ping" went to the two other networks, nothing to #a
C18_Witness ==
    \E k \in 1..Cur :
        /\ Done(k)
        /\ NoHandler(k)
        /\ stream[k].content = ping
        /\ Calls(k, "log")[1].msg.mtype = "command"
        /\ TextsTo(k, "irchandle") = <<>>
        /\ TextsTo(k, "tghandle") = TextsTo(k, "xmpphandle")
        /\ TextsTo(k, "xmpphandle") = << <<"[", "a", "l", "i", "c", "e", "]", " ",
                                           "!", "p", "i", "n", "g">> >>

----------------------------------------------------------------------------
(* C19 *)

\* the key of the room message k resolves to
KeyOf(k) ==
    LET r == CHOOSE r \in MatchingRooms(stream[k]) :
                 \A q \in MatchingRooms(stream[k]) : r <= q
    IN bindings[r][1]

\* C19: every log call and every store call made for a message is given the
\* key of the room that message resolved to, never an adapter and never the
\* room of another message, and the store call is given the reference the
\* log call of that same message returned.
C19_OwnRoomKey ==
    \A x \in DOMAIN trace :
        /\ trace[x].op = "log" => trace[x].room = Some(KeyOf(trace[x].n))
        /\ trace[x].op = "new_paste" =>
              /\ trace[x].channel = Some(KeyOf(trace[x].n))
              /\ \E y \in 1..(x - 1) :
                    /\ trace[y].op = "log"
                    /\ trace[y].n = trace[x].n
                    /\ trace[y].msg.sender = stream[trace[x].n].sender
                    /\ trace[y].ref = trace[x].msg_id

\* after "!ping" of room1 was answered and fanned out, leaving c at the last
\* adapter, a text of 400 bytes of room2 was logged and stored under room2,
\* with the reference of its own log entry, the third
C19_Witness ==
    /\ Cur = 2
    /\ ReplyOf(1) = Pong
    /\ Len(Calls(1, "send_msg")) = 5
    /\ stream[2].content = zh400
    /\ Len(Calls(2, "log")) = 1
    /\ Calls(2, "log")[1].room = Some("room2")
    /\ Calls(2, "log")[1].ref = 3
    /\ Len(Calls(2, "new_paste")) = 1
    /\ Calls(2, "new_paste")[1].channel = Some("room2")
    /\ Calls(2, "new_paste")[1].msg_id = 3

----------------------------------------------------------------------------
(* C20 *)

\* the first row of the table, in table order, that message k matches
FirstRow(k) ==
    CHOOSE r \in MatchingRooms(stream[k]) :
        \A q \in MatchingRooms(stream[k]) : r <= q

\* the addresses of row r
RowAddresses(r) == {bindings[r][2][ChanTag(a)] : a \in Adapters}

\* C20: a message is bound to one row of the table, the first in table order
\* whose address on the network of the message is its receiver, and every
\* send made for it, of a content line, of an Event or of a reply, goes to
\* the address that row gives the adapter: never to an address that only
\* another room has.
C20_OneRoomOnly ==
    \A k \in 1..Cur :
        /\ (k = Cur /\ Routed(k)) =>
              /\ b = Some(bindings[FirstRow(k)][2])
              /\ pc # "recv" => c \in {Some(bindings[FirstRow(k)][1])}
                                       \cup {Adapter(a) : a \in Adapters}
        /\ \A x \in DOMAIN trace :
              (trace[x].n = k /\ trace[x].op = "send_msg") =>
                  /\ Routed(k)
                  /\ trace[x].target
                        = bindings[FirstRow(k)][2][ChanTag(trace[x].adapter)]
                  /\ \A r \in DOMAIN bindings :
                        trace[x].target \in RowAddresses(r)
                            => trace[x].target \in RowAddresses(FirstRow(k))

\* "hi" on #a, an address room1 and room3 both have, went to the addresses
\* of room1, and a text of dev@conf to the addresses of room2
C20_Witness ==
    /\ Cur = 2
    /\ Done(2)
    /\ stream[1].receiver = "#a"
    /\ MatchingRooms(stream[1]) = {1, 3}
    /\ {trace[x].target : x \in At(1, "send_msg")} = {"-100123", "room@conf"}
    /\ stream[2].receiver = "dev@conf"
    /\ {trace[x].target : x \in At(2, "send_msg")} = {"-100456", "#b", "dev@conf"}

====
